---------------------------- MODULE Spec2Model ----------------------------
(***************************************************************************)
(* A model of src/resume_parser.py: the section segmenter                  *)
(* (detect_sections), the section formatter (format_sections), the         *)
(* extraction driver (extract_text_with_structure), the normalizer         *)
(* (normalize_text), the edit-distance engine (levenshtein_distance) and   *)
(* the accuracy scorer (calculate_accuracy) with its caller in main.       *)
(*                                                                         *)
(* A Python str is a sequence of one-character strings; Chars turns a      *)
(* literal into that form.  Every function of the source runs as a small   *)
(* state machine of its own; each specification below runs one of them     *)
(* and leaves the variables of the others at rest.                         *)
(***************************************************************************)
EXTENDS Integers, Sequences, FiniteSets, TLC

VARIABLES
    \* levenshtein_distance
    lev_a, lev_b,          \* the arguments of the outermost call
    s1, s2,                \* the arguments of the running call
    lev_pc,                \* "idle" | "entry" | "rows" | "ret"
    previous_row, lev_i,   \* the DP row and the index of the outer loop
    lev_ret,               \* the value returned
    \* calculate_accuracy and the comparison request of main
    pad,                   \* length of a run of "a" both texts start with
    extracted_text, ground_truth_text,
    extracted_norm, ground_truth_norm,
    acc_pc,                \* "idle" | "start" | "normalized" | "lev" | "ret"
    acc_ret,               \* the tuple calculate_accuracy returns
    main_pc,               \* "idle" | "call" | "unpacked" | "ValueError"
    \* detect_sections
    lines, seg_i, current_section, sections, seg_pc,
    \* format_sections
    fmt_sections, fmt_i, formatted_text, contact_info, fmt_pc, fmt_ret,
    \* extract_text_with_structure
    ext_pc,                \* "idle" | "digital" | "convert300" | "convert200"
                           \* | "ocr" | "done" | "raised"
    digital, words,        \* how extract_text ended, the words of its text
    conv300, conv200,      \* how the two convert_from_path calls ended
    pages, page_i,         \* how the OCR of each image ended, the loop index
    full_text, ocr_started, ext_ret, warnings

levVars == <<lev_a, lev_b, s1, s2, lev_pc, previous_row, lev_i, lev_ret>>
accVars == <<pad, extracted_text, ground_truth_text, extracted_norm,
             ground_truth_norm, acc_pc, acc_ret, main_pc>>
segVars == <<lines, seg_i, current_section, sections, seg_pc>>
fmtVars == <<fmt_sections, fmt_i, formatted_text, contact_info, fmt_pc, fmt_ret>>
extVars == <<ext_pc, digital, words, conv300, conv200, pages, page_i, full_text,
             ocr_started, ext_ret, warnings>>
vars == <<levVars, accVars, segVars, fmtVars, extVars>>

(***************************************************************************)
(* Bounds of the model.                                                    *)
(***************************************************************************)
MaxLevLen == 3
MaxTextLen == 3
MaxTruthLen == 2
MaxTailLen == 2
MaxLines == 4
MaxHeaderLines == 2
MaxContactLines == 2
MaxPages == 3
MaxExtraWords == 2

(***************************************************************************)
(* Strings.                                                                *)
(***************************************************************************)
Chars(str) == [i \in 1..Len(str) |-> SubSeq(str, i, i)]

Min2(a, b) == IF a <= b THEN a ELSE b
Max2(a, b) == IF a >= b THEN a ELSE b
Min3(a, b, c) == Min2(a, Min2(b, c))

RECURSIVE SeqsUpTo(_, _)
SeqsUpTo(S, n) ==
    IF n = 0 THEN {<<>>}
    ELSE LET R == SeqsUpTo(S, n - 1)
         IN  R \cup {Append(r, c) : r \in {q \in R : Len(q) = n - 1}, c \in S}

(***************************************************************************)
(* levenshtein_distance(s1, s2).                                           *)
(***************************************************************************)
Insertions(prev, j) == prev[j + 2] + 1
Deletions(cur, j) == cur[j + 1] + 1
SubstitutionsAlwaysCost(prev, j, c1, c2) == prev[j + 1] + 1
Substitutions(prev, j, c1, c2) == prev[j + 1] + (IF c1 # c2 THEN 1 ELSE 0)

\* The inner loop: current_row after the iterations j = 0 .. n-1 (Python
\* indexes from 0, so Python's row[k] is row[k + 1] here).
RECURSIVE CurrentRow(_, _, _, _, _)
CurrentRow(i, c1, t, prev, n) ==
    IF n = 0 THEN <<i + 1>>
    ELSE LET cur == CurrentRow(i, c1, t, prev, n - 1)
             j   == n - 1
         IN  Append(cur, Min3(Insertions(prev, j), Deletions(cur, j),
                              Substitutions(prev, j, c1, t[j + 1])))

\* range(len(s2) + 1)
RangeRow(n) == [k \in 1..(n + 1) |-> k - 1]

LevIdle ==
    /\ lev_a = <<>> /\ lev_b = <<>> /\ s1 = <<>> /\ s2 = <<>>
    /\ lev_pc = "idle" /\ previous_row = <<>> /\ lev_i = 0 /\ lev_ret = 0

\* if len(s1) < len(s2): return levenshtein_distance(s2, s1)
LevSwap ==
    /\ lev_pc = "entry"
    /\ Len(s1) < Len(s2)
    /\ s1' = s2 /\ s2' = s1
    /\ UNCHANGED <<lev_a, lev_b, lev_pc, previous_row, lev_i, lev_ret>>
    /\ UNCHANGED <<accVars, segVars, fmtVars, extVars>>

\* if len(s2) == 0: return len(s1)
LevEmpty ==
    /\ lev_pc = "entry"
    /\ ~(Len(s1) < Len(s2))
    /\ Len(s2) = 0
    /\ lev_ret' = Len(s1)
    /\ lev_pc' = "ret"
    /\ UNCHANGED <<lev_a, lev_b, s1, s2, previous_row, lev_i>>
    /\ UNCHANGED <<accVars, segVars, fmtVars, extVars>>

\* previous_row = range(len(s2) + 1)
LevStart ==
    /\ lev_pc = "entry"
    /\ ~(Len(s1) < Len(s2))
    /\ Len(s2) # 0
    /\ previous_row' = RangeRow(Len(s2))
    /\ lev_i' = 0
    /\ lev_pc' = "rows"
    /\ UNCHANGED <<lev_a, lev_b, s1, s2, lev_ret>>
    /\ UNCHANGED <<accVars, segVars, fmtVars, extVars>>

\* one iteration of: for i, c1 in enumerate(s1)
LevRow ==
    /\ lev_pc = "rows"
    /\ lev_i < Len(s1)
    /\ previous_row' = CurrentRow(lev_i, s1[lev_i + 1], s2, previous_row, Len(s2))
    /\ lev_i' = lev_i + 1
    /\ UNCHANGED <<lev_a, lev_b, s1, s2, lev_pc, lev_ret>>
    /\ UNCHANGED <<accVars, segVars, fmtVars, extVars>>

\* return previous_row[-1]
LevReturn ==
    /\ lev_pc = "rows"
    /\ lev_i = Len(s1)
    /\ lev_ret' = previous_row[Len(previous_row)]
    /\ lev_pc' = "ret"
    /\ UNCHANGED <<lev_a, lev_b, s1, s2, previous_row, lev_i>>
    /\ UNCHANGED <<accVars, segVars, fmtVars, extVars>>

LevStep == LevSwap \/ LevEmpty \/ LevStart \/ LevRow \/ LevReturn

(***************************************************************************)
(* normalize_text(text).                                                   *)
(***************************************************************************)
LowerCase == Chars("abcdefghijklmnopqrstuvwxyz")
UpperCase == Chars("ABCDEFGHIJKLMNOPQRSTUVWXYZ")
Digits == {"0", "1", "2", "3", "4", "5", "6", "7", "8", "9"}
Range(f) == {f[i] : i \in DOMAIN f}

LowerSet == Range(LowerCase)
UpperSet == Range(UpperCase)
ToLower == [c \in UpperSet |-> LowerCase[CHOOSE i \in DOMAIN UpperCase : UpperCase[i] = c]]
ToUpper == [c \in LowerSet |-> UpperCase[CHOOSE i \in DOMAIN LowerCase : LowerCase[i] = c]]

\* str.lower() and str.upper(), on the ASCII letters
LowerChar(c) == IF c \in UpperSet THEN ToLower[c] ELSE c
UpperChar(c) == IF c \in LowerSet THEN ToUpper[c] ELSE c
Lower(t) == [i \in DOMAIN t |-> LowerChar(t[i])]
Upper(t) == [i \in DOMAIN t |-> UpperChar(t[i])]

\* \s and \w of the re module, on the characters of the model
SpaceSet == {" ", "\n", "\t", "\r"}
WordSet == LowerSet \cup UpperSet \cup Digits \cup {"_"}
IsSpace(c) == c \in SpaceSet
IsWord(c) == c \in WordSet

\* str.strip()
RECURSIVE LStrip(_)
LStrip(t) == IF t # <<>> /\ IsSpace(Head(t)) THEN LStrip(Tail(t)) ELSE t
RECURSIVE RStrip(_)
RStrip(t) ==
    IF t # <<>> /\ IsSpace(t[Len(t)]) THEN RStrip(SubSeq(t, 1, Len(t) - 1)) ELSE t
Strip(t) == RStrip(LStrip(t))

\* re.sub(r'\s+', ' ', t): every maximal run of whitespace becomes one space
RECURSIVE CollapseSpace(_)
CollapseSpace(t) ==
    IF t = <<>> THEN <<>>
    ELSE IF IsSpace(Head(t))
         THEN <<" ">> \o CollapseSpace(LStrip(t))
         ELSE <<Head(t)>> \o CollapseSpace(Tail(t))

\* re.sub(r'[^\w\s]', '', t)
DropPunctuation(t) == SelectSeq(t, LAMBDA c : IsWord(c) \/ IsSpace(c))

normalize_text(text) == DropPunctuation(CollapseSpace(Strip(Lower(text))))

(***************************************************************************)
(* calculate_accuracy(extracted_text, ground_truth_text) and the call in   *)
(* main.  A score is held in hundredths of a percent (100.0 is 10000).     *)
(*                                                                         *)
(* Both texts may start with the same run of pad characters "a", kept as   *)
(* a number: the text compared is "a" * pad + extracted_text.  A pad is    *)
(* used only before texts of lower-case letters, which normalize_text      *)
(* leaves as they are, and a common prefix changes neither the comparison  *)
(* of the lengths nor the edit distance (LevPrefixLemma), so               *)
(* levenshtein_distance runs on the texts without their pad.               *)
(***************************************************************************)
RoundDigits == 2
Percent == 100
RECURSIVE Pow10(_)
Pow10(n) == IF n = 0 THEN 1 ELSE 10 * Pow10(n - 1)
Scale == Percent * Pow10(RoundDigits)
\* from this length on one edit is less than half of the last digit kept
TieLen == 2 * Scale

\* round((1 - distance / max_length) * 100, 2), in hundredths.  Away from a
\* tie the float result is the nearest hundredth; at a tie the binary
\* value of the float decides, and either neighbour is allowed.
RoundOutcomes(distance, max_length) ==
    LET num == Scale * (max_length - distance)
        f   == num \div max_length
        r   == num % max_length
    IN  IF 2 * r < max_length THEN {f}
        ELSE IF 2 * r > max_length THEN {f + 1}
        ELSE {f, f + 1}

\* max(len(extracted_norm), len(ground_truth_norm)), the pad counted in
MaxLengthOfShorter(e_len, g_len) == pad + Min2(e_len, g_len)
MaxLength(e_len, g_len) == pad + Max2(e_len, g_len)

AccIdle ==
    /\ pad = 0 /\ extracted_text = <<>> /\ ground_truth_text = <<>>
    /\ extracted_norm = <<>> /\ ground_truth_norm = <<>>
    /\ acc_pc = "idle" /\ acc_ret = <<>> /\ main_pc = "idle"

\* not extracted_norm or not ground_truth_norm
EitherEmpty == pad = 0 /\ (extracted_norm = <<>> \/ ground_truth_norm = <<>>)

\* extracted_norm = normalize_text(...); ground_truth_norm = normalize_text(...)
AccNormalize ==
    /\ acc_pc = "start"
    /\ extracted_norm' = normalize_text(extracted_text)
    /\ ground_truth_norm' = normalize_text(ground_truth_text)
    /\ acc_pc' = "normalized"
    /\ UNCHANGED <<pad, extracted_text, ground_truth_text, acc_ret, main_pc>>
    /\ UNCHANGED levVars
    /\ UNCHANGED <<segVars, fmtVars, extVars>>

\* return 0.0, extracted_norm, ground_truth_norm
AccReturnEmpty ==
    /\ acc_pc = "normalized"
    /\ EitherEmpty
    /\ acc_ret' = <<0, extracted_norm, ground_truth_norm>>
    /\ acc_pc' = "ret"
    /\ UNCHANGED <<pad, extracted_text, ground_truth_text, extracted_norm,
                   ground_truth_norm, main_pc>>
    /\ UNCHANGED levVars
    /\ UNCHANGED <<segVars, fmtVars, extVars>>

\* distance = levenshtein_distance(extracted_norm, ground_truth_norm): the call
AccCallLev ==
    /\ acc_pc = "normalized"
    /\ ~EitherEmpty
    /\ lev_a' = extracted_norm /\ lev_b' = ground_truth_norm
    /\ s1' = extracted_norm /\ s2' = ground_truth_norm
    /\ lev_pc' = "entry"
    /\ acc_pc' = "lev"
    /\ UNCHANGED <<previous_row, lev_i, lev_ret>>
    /\ UNCHANGED <<pad, extracted_text, ground_truth_text, extracted_norm,
                   ground_truth_norm, acc_ret, main_pc>>
    /\ UNCHANGED <<segVars, fmtVars, extVars>>

\* max_length, accuracy and the return of the five values
AccReturn ==
    /\ acc_pc = "lev"
    /\ lev_pc = "ret"
    /\ LET distance   == lev_ret
           max_length == MaxLength(Len(extracted_norm), Len(ground_truth_norm))
       IN  \E accuracy \in RoundOutcomes(distance, max_length) :
               acc_ret' = <<accuracy, extracted_norm, ground_truth_norm,
                            distance, max_length>>
    /\ acc_pc' = "ret"
    /\ UNCHANGED <<pad, extracted_text, ground_truth_text, extracted_norm,
                   ground_truth_norm, main_pc>>
    /\ UNCHANGED levVars
    /\ UNCHANGED <<segVars, fmtVars, extVars>>

\* accuracy, extracted_norm, ground_truth_norm, distance, max_length = ...
UnpacksInto(n, ret) == Len(ret) = n
MainUnpack ==
    /\ main_pc = "call"
    /\ acc_pc = "ret"
    /\ main_pc' = IF UnpacksInto(5, acc_ret) THEN "unpacked" ELSE "ValueError"
    /\ UNCHANGED <<pad, extracted_text, ground_truth_text, extracted_norm,
                   ground_truth_norm, acc_pc, acc_ret>>
    /\ UNCHANGED levVars
    /\ UNCHANGED <<segVars, fmtVars, extVars>>

AccStep == AccNormalize \/ AccReturnEmpty \/ AccCallLev \/ AccReturn \/ MainUnpack


(***************************************************************************)
(* OrderedDict: a sequence of (key, val) records in insertion order.       *)
(***************************************************************************)
OD_Keys(od) == [i \in DOMAIN od |-> od[i].key]
OD_Has(od, k) == \E i \in DOMAIN od : od[i].key = k
OD_Get(od, k) == od[CHOOSE i \in DOMAIN od : od[i].key = k].val
\* od[k] = v moving a key that is already there to the end
OD_SetMoveToEnd(od, k, v) ==
    Append(SelectSeq(od, LAMBDA e : e.key # k), [key |-> k, val |-> v])
\* od[k] = v: a new key goes last, a key already there keeps its place
OD_Set(od, k, v) ==
    IF OD_Has(od, k)
    THEN [i \in DOMAIN od |-> IF od[i].key = k THEN [key |-> k, val |-> v] ELSE od[i]]
    ELSE Append(od, [key |-> k, val |-> v])

RECURSIVE Str(_)
Str(t) == IF t = <<>> THEN "" ELSE Head(t) \o Str(Tail(t))

(***************************************************************************)
(* detect_sections(text).  lines is text.split('\n').                      *)
(***************************************************************************)
section_headers == <<
    "education", "academic background", "qualifications",
    "experience", "work experience", "employment",
    "projects", "personal projects",
    "technical skills", "skills", "key skills",
    "contact", "contact information",
    "references", "hackathons",
    "extracurricular activities", "activities" >>

header_chars == [k \in DOMAIN section_headers |-> Chars(section_headers[k])]
header_labels == [k \in DOMAIN section_headers |-> Str(Upper(Chars(section_headers[k])))]

\* what may follow the header phrase: \s*:?\s*$
HeaderRest(r) ==
    LET r1 == LStrip(r)
    IN  IF r1 = <<>> THEN TRUE
        ELSE Head(r1) = ":" /\ LStrip(Tail(r1)) = <<>>

\* re.search(r'^\s*' + re.escape(header) + r'\s*:?\s*$', line, re.IGNORECASE)
MatchesHeader(line, k) ==
    LET t == LStrip(line)
        h == header_chars[k]
    IN  /\ Len(t) >= Len(h)
        /\ Lower(SubSeq(t, 1, Len(h))) = h
        /\ HeaderRest(SubSeq(t, Len(h) + 1, Len(t)))

IsHeaderLine(line) == \E k \in DOMAIN section_headers : MatchesHeader(line, k)

\* the first header of the list that matches (the loop stops at it),
\* upper-cased: header.upper()
FirstHeader(line) ==
    header_labels[CHOOSE k \in DOMAIN section_headers :
        /\ MatchesHeader(line, k)
        /\ \A m \in 1..(k - 1) : ~MatchesHeader(line, m)]

\* sections[current_section] = []
OpenSectionKeepingContent(od, label) ==
    IF OD_Has(od, label) THEN od ELSE Append(od, [key |-> label, val |-> <<>>])
OpenSection(od, label) == OD_Set(od, label, <<>>)

\* line = line.strip(); if not line: continue
SegBlank ==
    /\ seg_pc = "loop"
    /\ seg_i < Len(lines)
    /\ Strip(lines[seg_i + 1]) = <<>>
    /\ seg_i' = seg_i + 1
    /\ UNCHANGED <<lines, current_section, sections, seg_pc>>
    /\ UNCHANGED <<levVars, accVars, fmtVars, extVars>>

\* a header matched: current_section = header.upper(); sections[...] = []
SegHeader ==
    /\ seg_pc = "loop"
    /\ seg_i < Len(lines)
    /\ LET line == Strip(lines[seg_i + 1])
       IN  /\ line # <<>>
           /\ IsHeaderLine(line)
           /\ current_section' = FirstHeader(line)
           /\ sections' = OpenSection(sections, current_section')
    /\ seg_i' = seg_i + 1
    /\ UNCHANGED <<lines, seg_pc>>
    /\ UNCHANGED <<levVars, accVars, fmtVars, extVars>>

\* if not is_section: sections[current_section].append(line)
SegContent ==
    /\ seg_pc = "loop"
    /\ seg_i < Len(lines)
    /\ LET line == Strip(lines[seg_i + 1])
       IN  /\ line # <<>>
           /\ ~IsHeaderLine(line)
           /\ sections' = OD_Set(sections, current_section,
                                 Append(OD_Get(sections, current_section), line))
    /\ seg_i' = seg_i + 1
    /\ UNCHANGED <<lines, current_section, seg_pc>>
    /\ UNCHANGED <<levVars, accVars, fmtVars, extVars>>

\* return sections
SegReturn ==
    /\ seg_pc = "loop"
    /\ seg_i = Len(lines)
    /\ seg_pc' = "done"
    /\ UNCHANGED <<lines, seg_i, current_section, sections>>
    /\ UNCHANGED <<levVars, accVars, fmtVars, extVars>>

SegStep == SegBlank \/ SegHeader \/ SegContent \/ SegReturn

(***************************************************************************)
(* format_sections(sections).                                              *)
(***************************************************************************)
\* sep.join(parts)
RECURSIVE Join(_, _)
Join(sep, parts) ==
    IF parts = <<>> THEN <<>>
    ELSE IF Len(parts) = 1 THEN parts[1]
    ELSE parts[1] \o sep \o Join(sep, Tail(parts))

\* sub in t
Contains(t, sub) ==
    \E i \in 0..(Len(t) - Len(sub)) : SubSeq(t, i + 1, i + Len(sub)) = sub

\* the class [\d\s\-\(\)]
PhoneInner(c) == c \in Digits \cup SpaceSet \cup {"-", "(", ")"}
\* {7,}: at least this many characters of the class between the two digits
PhoneMinInner == 7
\* re.search(r'(\+?\d[\d\s\-\(\)]{7,}\d)', line): the optional + never
\* decides whether there is a match
PhoneMatch(line) ==
    \E i, j \in DOMAIN line :
        /\ j - i - 1 >= PhoneMinInner
        /\ line[i] \in Digits /\ line[j] \in Digits
        /\ \A k \in (i + 1)..(j - 1) : PhoneInner(line[k])

\* the if / elif chain of the contact block, with the @ test first
ContactLineEmailFirst(line) ==
    IF "@" \in Range(line) THEN Chars("Email: ") \o line
    ELSE IF PhoneMatch(line) THEN Chars("Phone: ") \o line
    ELSE IF Contains(Lower(line), Chars("linkedin.com")) THEN Chars("LinkedIn: ") \o line
    ELSE IF Contains(Lower(line), Chars("github.com")) THEN Chars("GitHub: ") \o line
    ELSE line
\* the if / elif chain of the contact block
ContactLine(line) ==
    IF PhoneMatch(line) THEN Chars("Phone: ") \o line
    ELSE IF "@" \in Range(line) THEN Chars("Email: ") \o line
    ELSE IF Contains(Lower(line), Chars("linkedin.com")) THEN Chars("LinkedIn: ") \o line
    ELSE IF Contains(Lower(line), Chars("github.com")) THEN Chars("GitHub: ") \o line
    ELSE line

\* f"\n\n{section.upper()}\n\n"
Banner(section) == Chars("\n\n") \o Upper(Chars(section)) \o Chars("\n\n")

\* the bullet marker and the space after it; BULLET stands for the
\* characters of the marker
BulletLine(line) == <<"BULLET", " ">> \o line

\* f"{content[0].upper()}\n\n"
HeaderTitleAsIs(line) == line \o Chars("\n\n")
HeaderTitle(line) == Upper(line) \o Chars("\n\n")

FmtSection == fmt_sections[fmt_i + 1].key
FmtContent == fmt_sections[fmt_i + 1].val

\* if not content: continue
FmtSkipEmpty ==
    /\ fmt_pc = "loop"
    /\ fmt_i < Len(fmt_sections)
    /\ FmtContent = <<>>
    /\ fmt_i' = fmt_i + 1
    /\ UNCHANGED <<fmt_sections, formatted_text, contact_info, fmt_pc, fmt_ret>>
    /\ UNCHANGED <<levVars, accVars, segVars, extVars>>

\* the HEADER section: the title, then the other lines; continue
FmtHeader ==
    /\ fmt_pc = "loop"
    /\ fmt_i < Len(fmt_sections)
    /\ FmtContent # <<>>
    /\ FmtSection = "HEADER"
    /\ formatted_text' =
           IF Len(FmtContent) > 1
           THEN formatted_text \o <<HeaderTitle(FmtContent[1]),
                                    Join(<<"\n">>, Tail(FmtContent)) \o <<"\n">> >>
           ELSE Append(formatted_text, HeaderTitle(FmtContent[1]))
    /\ fmt_i' = fmt_i + 1
    /\ UNCHANGED <<fmt_sections, contact_info, fmt_pc, fmt_ret>>
    /\ UNCHANGED <<levVars, accVars, segVars, extVars>>

\* a section whose label contains "contact": the banner, then the lines
\* classified
FmtContact ==
    /\ fmt_pc = "loop"
    /\ fmt_i < Len(fmt_sections)
    /\ FmtContent # <<>>
    /\ FmtSection # "HEADER"
    /\ Contains(Lower(Chars(FmtSection)), Chars("contact"))
    /\ contact_info' = [k \in DOMAIN FmtContent |-> ContactLine(FmtContent[k])]
    /\ formatted_text' = formatted_text \o <<Banner(FmtSection),
                                             Join(<<"\n">>, contact_info')>>
    /\ fmt_i' = fmt_i + 1
    /\ UNCHANGED <<fmt_sections, fmt_pc, fmt_ret>>
    /\ UNCHANGED <<levVars, accVars, segVars, extVars>>

\* any other section: the banner, then the lines bulleted
FmtBullets ==
    /\ fmt_pc = "loop"
    /\ fmt_i < Len(fmt_sections)
    /\ FmtContent # <<>>
    /\ FmtSection # "HEADER"
    /\ ~Contains(Lower(Chars(FmtSection)), Chars("contact"))
    /\ formatted_text' = formatted_text \o
           <<Banner(FmtSection),
             Join(<<"\n">>, [k \in DOMAIN FmtContent |-> BulletLine(FmtContent[k])])>>
    /\ fmt_i' = fmt_i + 1
    /\ UNCHANGED <<fmt_sections, contact_info, fmt_pc, fmt_ret>>
    /\ UNCHANGED <<levVars, accVars, segVars, extVars>>

\* return "".join(formatted_text).strip()
FmtReturn ==
    /\ fmt_pc = "loop"
    /\ fmt_i = Len(fmt_sections)
    /\ fmt_ret' = Strip(Join(<<>>, formatted_text))
    /\ fmt_pc' = "done"
    /\ UNCHANGED <<fmt_sections, fmt_i, formatted_text, contact_info>>
    /\ UNCHANGED <<levVars, accVars, segVars, extVars>>

FmtStep == FmtSkipEmpty \/ FmtHeader \/ FmtContact \/ FmtBullets \/ FmtReturn

(***************************************************************************)
(* extract_text_with_structure(pdf_path).  extract_text,                   *)
(* convert_from_path, preprocess_image and image_to_string are the         *)
(* environment: each call returns or raises.  The text format_sections     *)
(* returns is named by where its input came from.                          *)
(***************************************************************************)
WordGate == 50
FormattedDigital == "format_sections(detect_sections(text))"
FormattedOcr == "format_sections(detect_sections(combined_text))"
NoOcrText == "OCR completed but no text extracted"
ExtractionFailed == "Extraction failed"

\* len(text.strip().split()) > 50
EnoughWordsOffByOne(n) == n > WordGate + 1
EnoughWords(n) == n > WordGate

\* extract_text raised: the handler warns and the function goes on
ExtDigitalRaise ==
    /\ ext_pc = "digital"
    /\ digital' = "raised"
    /\ warnings' = Append(warnings, "PDFMiner extraction attempt failed")
    /\ ext_pc' = "convert300"
    /\ UNCHANGED <<words, conv300, conv200, pages, page_i, full_text,
                   ocr_started, ext_ret>>
    /\ UNCHANGED <<levVars, accVars, segVars, fmtVars>>

\* extract_text returned a text of n words: enough of them, and the
\* formatted sections are returned; too few, and the function goes on
ExtDigitalOk ==
    /\ ext_pc = "digital"
    /\ \E n \in {0} \cup ((WordGate - 1)..(WordGate + MaxExtraWords)) :
           /\ words' = n
           /\ IF EnoughWords(n)
              THEN ext_pc' = "done" /\ ext_ret' = FormattedDigital
              ELSE ext_pc' = "convert300" /\ ext_ret' = ext_ret
    /\ digital' = "ok"
    /\ UNCHANGED <<conv300, conv200, pages, page_i, full_text, ocr_started, warnings>>
    /\ UNCHANGED <<levVars, accVars, segVars, fmtVars>>

\* images = convert_from_path(pdf_path, dpi=300) returned n images
ExtConvert300Ok ==
    /\ ext_pc = "convert300"
    /\ ocr_started' = TRUE
    /\ conv300' = "ok"
    /\ \E n \in 0..MaxPages : pages' = [k \in 1..n |-> "pending"]
    /\ page_i' = 0
    /\ full_text' = <<>>
    /\ ext_pc' = "ocr"
    /\ UNCHANGED <<digital, words, conv200, ext_ret, warnings>>
    /\ UNCHANGED <<levVars, accVars, segVars, fmtVars>>

\* convert_from_path(pdf_path, dpi=300) raised: warn, retry at 200 dpi
ExtConvert300Raise ==
    /\ ext_pc = "convert300"
    /\ ocr_started' = TRUE
    /\ conv300' = "raised"
    /\ warnings' = Append(warnings, "PDF conversion warning")
    /\ ext_pc' = "convert200"
    /\ UNCHANGED <<digital, words, conv200, pages, page_i, full_text, ext_ret>>
    /\ UNCHANGED <<levVars, accVars, segVars, fmtVars>>

\* images = convert_from_path(pdf_path, dpi=200) returned n images
ExtConvert200Ok ==
    /\ ext_pc = "convert200"
    /\ conv200' = "ok"
    /\ \E n \in 0..MaxPages : pages' = [k \in 1..n |-> "pending"]
    /\ page_i' = 0
    /\ full_text' = <<>>
    /\ ext_pc' = "ocr"
    /\ UNCHANGED <<digital, words, conv300, ocr_started, ext_ret, warnings>>
    /\ UNCHANGED <<levVars, accVars, segVars, fmtVars>>

\* convert_from_path(pdf_path, dpi=200) raised inside the handler: the outer
\* handler reports it and returns "Extraction failed"
ExtConvert200Raise ==
    /\ ext_pc = "convert200"
    /\ conv200' = "raised"
    /\ warnings' = Append(warnings, "OCR failed")
    /\ ext_ret' = ExtractionFailed
    /\ ext_pc' = "done"
    /\ UNCHANGED <<digital, words, conv300, pages, page_i, full_text, ocr_started>>
    /\ UNCHANGED <<levVars, accVars, segVars, fmtVars>>

\* one image preprocessed and read: full_text.append(text); the text may be
\* the empty string
ExtOcrPageOk ==
    /\ ext_pc = "ocr"
    /\ page_i < Len(pages)
    /\ pages' = [pages EXCEPT ![page_i + 1] = "ok"]
    /\ \E text \in {"", "page text"} : full_text' = Append(full_text, text)
    /\ page_i' = page_i + 1
    /\ UNCHANGED <<ext_pc, digital, words, conv300, conv200, ocr_started, ext_ret,
                   warnings>>
    /\ UNCHANGED <<levVars, accVars, segVars, fmtVars>>

\* where an exception of preprocess_image or image_to_string goes: the
\* handler inside the loop warns and the loop continues with the next image
PageErrorAborts(i) == [pc |-> "done", page_i |-> i, ret |-> ExtractionFailed]
PageError(i) == [pc |-> "ocr", page_i |-> i + 1, ret |-> ext_ret]

\* preprocess_image or image_to_string raised on one image
ExtOcrPageRaise ==
    /\ ext_pc = "ocr"
    /\ page_i < Len(pages)
    /\ pages' = [pages EXCEPT ![page_i + 1] = "raised"]
    /\ warnings' = Append(warnings, "OCR processing warning")
    /\ ext_pc' = PageError(page_i).pc
    /\ page_i' = PageError(page_i).page_i
    /\ ext_ret' = PageError(page_i).ret
    /\ UNCHANGED <<digital, words, conv300, conv200, full_text, ocr_started>>
    /\ UNCHANGED <<levVars, accVars, segVars, fmtVars>>

\* after the loop: if full_text: return the formatted sections; else the
\* message
ExtFinish ==
    /\ ext_pc = "ocr"
    /\ page_i = Len(pages)
    /\ ext_ret' = IF full_text # <<>> THEN FormattedOcr ELSE NoOcrText
    /\ ext_pc' = "done"
    /\ UNCHANGED <<digital, words, conv300, conv200, pages, page_i, full_text,
                   ocr_started, warnings>>
    /\ UNCHANGED <<levVars, accVars, segVars, fmtVars>>

ExtStep ==
    \/ ExtDigitalRaise \/ ExtDigitalOk
    \/ ExtConvert300Ok \/ ExtConvert300Raise
    \/ ExtConvert200Ok \/ ExtConvert200Raise
    \/ ExtOcrPageOk \/ ExtOcrPageRaise
    \/ ExtFinish

(***************************************************************************)
(* Components at rest.                                                     *)
(***************************************************************************)
SegIdle ==
    /\ lines = <<>> /\ seg_i = 0 /\ current_section = "" /\ sections = <<>>
    /\ seg_pc = "idle"
FmtIdle ==
    /\ fmt_sections = <<>> /\ fmt_i = 0 /\ formatted_text = <<>>
    /\ contact_info = <<>>
    /\ fmt_pc = "idle" /\ fmt_ret = <<>>
ExtIdle ==
    /\ ext_pc = "idle" /\ digital = "none" /\ words = 0
    /\ conv300 = "none" /\ conv200 = "none"
    /\ pages = <<>> /\ page_i = 0 /\ full_text = <<>> /\ ocr_started = FALSE
    /\ ext_ret = "" /\ warnings = <<>>

(***************************************************************************)
(* LevSpec: levenshtein_distance called on every pair of strings over      *)
(* LevChars of length at most MaxLevLen.                                   *)
(***************************************************************************)
LevChars == {"a", "b", "c"}

LevInit ==
    /\ lev_a \in SeqsUpTo(LevChars, MaxLevLen)
    /\ lev_b \in SeqsUpTo(LevChars, MaxLevLen)
    /\ s1 = lev_a /\ s2 = lev_b
    /\ lev_pc = "entry" /\ previous_row = <<>> /\ lev_i = 0 /\ lev_ret = 0
    /\ AccIdle /\ SegIdle /\ FmtIdle /\ ExtIdle

LevNext == LevStep

LevSpec == LevInit /\ [][LevNext]_vars

(***************************************************************************)
(* The edit distance by its definition: the least number of single-        *)
(* character insertions, deletions and substitutions that turn a into b.   *)
(* A shortest edit script can delete first, substitute next and insert     *)
(* last, using only characters of b, so the strings on the way are no      *)
(* longer than the longer of a and b.                                      *)
(***************************************************************************)
RemoveAt(t, i) == SubSeq(t, 1, i - 1) \o SubSeq(t, i + 1, Len(t))
InsertAt(t, i, c) == SubSeq(t, 1, i - 1) \o <<c>> \o SubSeq(t, i, Len(t))
OneEdit(t, alphabet, maxlen) ==
    {RemoveAt(t, i) : i \in 1..Len(t)}
    \cup {[t EXCEPT ![i] = c] : i \in 1..Len(t), c \in alphabet}
    \cup (IF Len(t) < maxlen
          THEN {InsertAt(t, i, c) : i \in 1..(Len(t) + 1), c \in alphabet}
          ELSE {})

RECURSIVE EditSearch(_, _, _, _, _)
EditSearch(reached, b, k, alphabet, maxlen) ==
    IF b \in reached THEN k
    ELSE EditSearch(reached \cup UNION {OneEdit(t, alphabet, maxlen) : t \in reached},
                    b, k + 1, alphabet, maxlen)
EditDistance(a, b) == EditSearch({a}, b, 0, Range(b), Max2(Len(a), Len(b)))

\* C1: whenever levenshtein_distance returns, the value returned is the edit
\* distance of the two arguments of the call, whichever is longer or empty.
C1_LevenshteinIsEditDistance ==
    lev_pc = "ret" => lev_ret = EditDistance(lev_a, lev_b)

\* C1 witness: a call with the shorter string first (the swapped call), both
\* non-empty, returned with a distance of at least two.
C1_Witness ==
    /\ lev_pc = "ret"
    /\ 0 < Len(lev_a) /\ Len(lev_a) < Len(lev_b)
    /\ lev_ret >= 2
    /\ lev_ret < Len(lev_b)

\* A common prefix changes nothing: the distance returned for (a, b) is also
\* the edit distance of "a" + a and "a" + b.
LevPrefixLemma ==
    lev_pc = "ret" => lev_ret = EditDistance(<<"a">> \o lev_a, <<"a">> \o lev_b)


(***************************************************************************)
(* AccSpec: the comparison request of main on every pair of short texts    *)
(* over AccChars, and on pairs of long texts that differ in their last     *)
(* MaxTailLen characters at most ("a" * pad + tail, the length around      *)
(* TieLen).                                                                *)
(***************************************************************************)
AccChars == {"b", "B", " ", "\n", ","}
TailChars == {"a", "b"}
LongPads == (TieLen - MaxTailLen - 1)..TieLen

AccInit ==
    /\ \/ /\ pad = 0
          /\ extracted_text \in SeqsUpTo(AccChars, MaxTextLen)
          /\ ground_truth_text \in SeqsUpTo(AccChars, MaxTruthLen)
       \/ /\ pad \in LongPads
          /\ extracted_text \in SeqsUpTo(TailChars, MaxTailLen)
          /\ ground_truth_text \in SeqsUpTo(TailChars, MaxTailLen)
    /\ extracted_norm = <<>> /\ ground_truth_norm = <<>>
    /\ acc_pc = "start" /\ acc_ret = <<>> /\ main_pc = "call"
    /\ LevIdle /\ SegIdle /\ FmtIdle /\ ExtIdle

AccNext == AccStep \/ LevStep

AccSpec == AccInit /\ [][AccNext]_vars

HasWord(t) == \E i \in DOMAIN t : IsWord(t[i])

\* C2: when either text normalizes to the empty string, calculate_accuracy
\* returns five values with a score of 0.0, and the unpacking in main does
\* not raise.
C2_EmptyInputReturnsFiveValues ==
    (acc_pc = "ret" /\ EitherEmpty) =>
        /\ Len(acc_ret) = 5
        /\ acc_ret[1] = 0
        /\ main_pc # "ValueError"

\* Two texts differ only in letter case and in punctuation characters: with
\* the punctuation deleted and the case folded they are the same string.
SameUpToCaseAndPunctuation(x, y) ==
    DropPunctuation(Lower(x)) = DropPunctuation(Lower(y))

\* C3: two texts that hold a word character and differ only in letter case
\* and in the presence or placement of punctuation score 100.0.
C3_CaseAndPunctuationInvariant ==
    (/\ acc_pc = "ret"
     /\ pad = 0
     /\ HasWord(extracted_text) /\ HasWord(ground_truth_text)
     /\ SameUpToCaseAndPunctuation(extracted_text, ground_truth_text)) =>
        acc_ret[1] = Scale

\* C7 as stated: the distance never exceeds the max length, the score lies
\* in [0, 100], and it is 100 exactly when the normalized texts are equal
\* and non-empty.
C7_ScoreHundredIffEqual ==
    acc_pc = "ret" =>
        /\ Len(acc_ret) = 5 => acc_ret[4] <= acc_ret[5]
        /\ 0 <= acc_ret[1] /\ acc_ret[1] <= Scale
        /\ acc_ret[1] = Scale <=>
               (extracted_norm = ground_truth_norm /\ ~EitherEmpty)

\* C7 amended: the distance never exceeds the max length, the score lies in
\* [0, 100], it is 100 whenever the normalized texts are equal and
\* non-empty, and below a max length of TieLen it is 100 only then.
C7_ScoreBounds ==
    acc_pc = "ret" =>
        /\ Len(acc_ret) = 5 => acc_ret[4] <= acc_ret[5]
        /\ 0 <= acc_ret[1] /\ acc_ret[1] <= Scale
        /\ (extracted_norm = ground_truth_norm /\ ~EitherEmpty) => acc_ret[1] = Scale
        /\ (acc_ret[1] = Scale /\ Len(acc_ret) = 5 /\ acc_ret[5] < TieLen) =>
               extracted_norm = ground_truth_norm

\* C7 witness: a score strictly between 0 and 100 returned for two short
\* texts of different lengths.
C7_Witness ==
    /\ acc_pc = "ret" /\ Len(acc_ret) = 5 /\ pad = 0
    /\ 0 < acc_ret[1] /\ acc_ret[1] < Scale
    /\ Len(extracted_norm) > Len(ground_truth_norm)
    /\ acc_ret[4] = 2


(***************************************************************************)
(* SegSpec: detect_sections on every text of at most MaxLines lines drawn  *)
(* from LinePool.                                                          *)
(***************************************************************************)
LinePool == {Chars("  "), Chars("Skills"), Chars(" skills : "),
             Chars("CONTACT:"), Chars(" Python "), Chars("a@b.c")}

SegInit ==
    /\ lines \in SeqsUpTo(LinePool, MaxLines)
    /\ seg_i = 0
    /\ current_section = "HEADER"
    /\ sections = <<[key |-> "HEADER", val |-> <<>>]>>
    /\ seg_pc = "loop"
    /\ LevIdle /\ AccIdle /\ FmtIdle /\ ExtIdle

SegNext == SegStep

SegSpec == SegInit /\ [][SegNext]_vars

\* The label a line of the text opens, "" when it is no header line.
LabelAt(i) ==
    LET line == Strip(lines[i])
    IN  IF IsHeaderLine(line) THEN FirstHeader(line) ELSE ""
HeaderIndexes == {i \in DOMAIN lines : LabelAt(i) # ""}
SetMax(S) == CHOOSE x \in S : \A y \in S : y <= x
SetMin(S) == CHOOSE x \in S : \A y \in S : x <= y
\* the non-blank lines, stripped, strictly between two positions
ContentBetween(lo, hi) ==
    SelectSeq([k \in 1..Max2(hi - lo - 1, 0) |-> Strip(lines[lo + k])],
              LAMBDA l : l # <<>>)
NextHeaderAfter(i) == SetMin({j \in HeaderIndexes : j > i} \cup {Len(lines) + 1})
ExpectedContent(label) ==
    IF label = "HEADER" THEN ContentBetween(0, NextHeaderAfter(0))
    ELSE LET last == SetMax({i \in HeaderIndexes : LabelAt(i) = label})
         IN  ContentBetween(last, NextHeaderAfter(last))

\* C5: in the map returned, each label that occurs holds exactly the
\* non-blank, non-header lines between its LAST header line and the next
\* header line (or the end), and HEADER holds the non-blank lines before the
\* first header line.
C5_LastOccurrenceWins ==
    seg_pc = "done" =>
        /\ Range(OD_Keys(sections)) = {"HEADER"} \cup {LabelAt(i) : i \in HeaderIndexes}
        /\ \A n \in DOMAIN sections :
               sections[n].val = ExpectedContent(sections[n].key)

\* C5 witness: a label opened twice with content after each opening.
C5_Witness ==
    /\ seg_pc = "done"
    /\ \E i, j \in HeaderIndexes :
           /\ i + 1 < j /\ LabelAt(i) = LabelAt(j)
           /\ ~(i + 1 \in HeaderIndexes) /\ Strip(lines[i + 1]) # <<>>
           /\ OD_Get(sections, LabelAt(j)) # <<>>

FirstIndex(label, n) == SetMin({i \in HeaderIndexes : i <= n /\ LabelAt(i) = label})

\* C6: at every step of the scan and in the map returned, HEADER is the
\* first key, the current label is a key, the keys are the labels met so far
\* in the order of their first occurrence, and a text without a header line
\* gives the single key HEADER.
C6_KeysInFirstOccurrenceOrder ==
    seg_pc \in {"loop", "done"} =>
        LET keys == OD_Keys(sections)
        IN  /\ Len(keys) >= 1 /\ keys[1] = "HEADER"
            /\ current_section \in Range(keys)
            /\ \A a, b \in DOMAIN keys : a # b => keys[a] # keys[b]
            /\ Range(keys) = {"HEADER"} \cup {LabelAt(i) : i \in {j \in HeaderIndexes : j <= seg_i}}
            /\ \A a, b \in 2..Len(keys) :
                   a < b => FirstIndex(keys[a], seg_i) < FirstIndex(keys[b], seg_i)
            /\ (seg_pc = "done" /\ HeaderIndexes = {}) => keys = <<"HEADER">>

\* C6 witness: a header met again after another header was met, the scan
\* still running.
C6_Witness ==
    /\ seg_pc = "loop"
    /\ Len(sections) = 3
    /\ seg_i >= 3
    /\ LabelAt(seg_i) = sections[2].key


(***************************************************************************)
(* FmtSpec: format_sections on section maps of the shape detect_sections   *)
(* returns: HEADER first, then CONTACT and SKILLS in either order, the     *)
(* lines stripped and non-blank.                                           *)
(***************************************************************************)
HeaderPool == {Chars("John Doe"), Chars("R2-D2")}
ContactPool == {Chars("12345678"), Chars("123456789"), Chars("1       2"),
                Chars("555-123-4567"), Chars("john@example.com"),
                Chars("a@b 123456789"), Chars("x@LinkedIn.com"),
                Chars("linkedin.com/github.com"), Chars("GitHub.com/a"),
                Chars("hello")}
SkillsContent == <<Chars("Python"), Chars("SQL")>>

FmtInit ==
    /\ LET H == {[key |-> "HEADER", val |-> v] : v \in SeqsUpTo(HeaderPool, MaxHeaderLines)}
           C == {[key |-> "CONTACT", val |-> v] : v \in SeqsUpTo(ContactPool, MaxContactLines)}
           S == [key |-> "SKILLS", val |-> SkillsContent]
       IN  fmt_sections \in {<<h>> : h \in H}
                             \cup {<<h, c>> : h \in H, c \in C}
                             \cup {<<h, c, S>> : h \in H, c \in C}
                             \cup {<<h, S, c>> : h \in H, c \in C}
    /\ fmt_i = 0 /\ formatted_text = <<>> /\ contact_info = <<>>
    /\ fmt_pc = "loop" /\ fmt_ret = <<>>
    /\ LevIdle /\ AccIdle /\ SegIdle /\ ExtIdle

FmtNext == FmtStep

FmtSpec == FmtInit /\ [][FmtNext]_vars

HeaderContent == fmt_sections[1].val
HeaderRendered == fmt_sections[1].key = "HEADER" /\ fmt_i >= 1 /\ HeaderContent # <<>>

\* C4 as stated: a non-empty HEADER section is rendered as its first line,
\* unchanged, and a blank line, then the other lines joined by newlines with
\* a trailing newline, with no banner.
C4_HeaderFirstLineUnchanged ==
    HeaderRendered =>
        /\ formatted_text[1] = HeaderContent[1] \o Chars("\n\n")
        /\ Len(HeaderContent) > 1 =>
               formatted_text[2] = Join(<<"\n">>, Tail(HeaderContent)) \o <<"\n">>
        /\ fmt_i = 1 => Len(formatted_text) = (IF Len(HeaderContent) > 1 THEN 2 ELSE 1)

\* C4 amended: a non-empty HEADER section is rendered as its first line in
\* UPPER CASE and a blank line, then the other lines, unchanged, joined by
\* newlines with a trailing newline, with no banner.
C4_HeaderFirstLineUpper ==
    HeaderRendered =>
        /\ formatted_text[1] = Upper(HeaderContent[1]) \o Chars("\n\n")
        /\ Len(HeaderContent) > 1 =>
               formatted_text[2] = Join(<<"\n">>, Tail(HeaderContent)) \o <<"\n">>
        /\ fmt_i = 1 => Len(formatted_text) = (IF Len(HeaderContent) > 1 THEN 2 ELSE 1)

\* C4 witness: a HEADER of two lines rendered, the first with lower-case
\* letters in it.
C4_Witness ==
    /\ HeaderRendered
    /\ Len(HeaderContent) = 2
    /\ HeaderContent[1] = Chars("John Doe")
    /\ formatted_text[1] = Chars("JOHN DOE\n\n")


\* The phone shape as C8 words it: a run of characters of the class that
\* starts and ends with a digit and holds 8 digits or more.
ClaimedPhoneShape(line) ==
    \E i, j \in DOMAIN line :
        /\ i <= j
        /\ line[i] \in Digits /\ line[j] \in Digits
        /\ \A k \in i..j : PhoneInner(line[k])
        /\ Cardinality({k \in i..j : line[k] \in Digits}) >= 8

\* The phone shape of the amended claim: a digit, then 7 characters or more
\* of the class (digits or not), then a digit: 9 characters at least.
AmendedPhoneShape(line) ==
    \E i \in DOMAIN line : \E n \in 9..Len(line) :
        /\ i + n - 1 <= Len(line)
        /\ line[i] \in Digits /\ line[i + n - 1] \in Digits
        /\ \A k \in 1..(n - 2) : PhoneInner(line[i + k])

\* the prefix rules of C8 in their order, for a given phone test
PrefixedByRule(line, phone) ==
    IF phone THEN Chars("Phone: ") \o line
    ELSE IF \E k \in DOMAIN line : line[k] = "@" THEN Chars("Email: ") \o line
    ELSE IF Contains(Lower(line), Chars("linkedin.com")) THEN Chars("LinkedIn: ") \o line
    ELSE IF Contains(Lower(line), Chars("github.com")) THEN Chars("GitHub: ") \o line
    ELSE line

ContactRendered == contact_info # <<>>
ContactContent == OD_Get(fmt_sections, "CONTACT")

\* C8 as stated: every line of a contact section gets the prefix of the
\* first rule that applies, the phone rule being "a run of 8 digits or
\* more"; a line of exactly 8 digits is labelled Phone.
C8_ContactPrefixEightDigits ==
    ContactRendered =>
        /\ Len(contact_info) = Len(ContactContent)
        /\ \A k \in DOMAIN ContactContent :
               contact_info[k] =
                   PrefixedByRule(ContactContent[k], ClaimedPhoneShape(ContactContent[k]))

\* C8 amended: every line of a contact section gets the prefix of the first
\* rule that applies, the phone rule being "a digit, 7 or more characters
\* that are digits, whitespace, hyphens or parentheses, and a digit"; a line
\* of exactly 8 digits gets no Phone prefix; the lines so prefixed, joined
\* by newlines, follow the banner of the section.
C8_ContactPrefixNineChars ==
    ContactRendered =>
        /\ Len(contact_info) = Len(ContactContent)
        /\ \A k \in DOMAIN ContactContent :
               /\ contact_info[k] =
                      PrefixedByRule(ContactContent[k], AmendedPhoneShape(ContactContent[k]))
               /\ ContactContent[k] = Chars("12345678") => contact_info[k] = Chars("12345678")
        /\ \E n \in 2..Len(formatted_text) :
               /\ formatted_text[n - 1] = Chars("\n\nCONTACT\n\n")
               /\ formatted_text[n] = Join(<<"\n">>, contact_info)

\* C8 witness: a contact section rendered that holds a line of 8 digits and
\* a line with both a phone number and an @.
C8_Witness ==
    /\ ContactRendered
    /\ contact_info = <<Chars("12345678"), Chars("Phone: a@b 123456789")>>

(***************************************************************************)
(* ExtSpec: extract_text_with_structure against every behaviour of its     *)
(* environment, with at most MaxPages images.                              *)
(***************************************************************************)
ExtInit ==
    /\ ext_pc = "digital" /\ digital = "none" /\ words = 0
    /\ conv300 = "none" /\ conv200 = "none"
    /\ pages = <<>> /\ page_i = 0 /\ full_text = <<>> /\ ocr_started = FALSE
    /\ ext_ret = "" /\ warnings = <<>>
    /\ LevIdle /\ AccIdle /\ SegIdle /\ FmtIdle

ExtNext == ExtStep

ExtSpec == ExtInit /\ [][ExtNext]_vars

\* C9 as stated: OCR is started only when the text extracted digitally has
\* at most 50 words.
C9_OcrOnlyOnFewWords ==
    ocr_started => (digital = "ok" /\ words <= WordGate)

\* C9 amended: OCR is started only when the text extracted digitally has at
\* most 50 words or the digital extraction raised an exception.
C9_OcrOnlyOnFewWordsOrFailure ==
    ocr_started => (digital = "raised" \/ (digital = "ok" /\ words <= WordGate))

\* C9 witness: OCR started after a digital text of exactly 50 words.
C9_Witness ==
    ocr_started /\ digital = "ok" /\ words = WordGate

PagesRead == {k \in DOMAIN pages : pages[k] = "ok"}

\* C10: the function never lets an exception out and never stops before it
\* returns; what it returns is the formatted sections, or "Extraction
\* failed" exactly when the conversion failed at both resolutions, or "OCR
\* completed but no text extracted" exactly when the images were converted
\* and no page was read; a page whose OCR fails is skipped and the pages
\* after it are still processed.
C10_AlwaysReturnsAString ==
    /\ ext_pc # "raised"
    /\ ext_pc # "done" => ENABLED ExtNext
    /\ ext_pc = "done" =>
           /\ ext_ret \in {FormattedDigital, FormattedOcr, NoOcrText, ExtractionFailed}
           /\ ext_ret = ExtractionFailed <=> (conv300 = "raised" /\ conv200 = "raised")
           /\ ext_ret = NoOcrText <=>
                  (("ok" \in {conv300, conv200}) /\ PagesRead = {})
           /\ ext_ret = FormattedOcr <=>
                  (("ok" \in {conv300, conv200}) /\ PagesRead # {})
           /\ ext_ret = FormattedDigital <=> ~ocr_started
           /\ ("ok" \in {conv300, conv200}) =>
                  /\ page_i = Len(pages)
                  /\ \A k \in DOMAIN pages : pages[k] \in {"ok", "raised"}
                  /\ Len(full_text) = Cardinality(PagesRead)

\* C10 witness: the function returned the OCR text of a later page after the
\* OCR of the first page failed, the conversion having succeeded at the
\* 200 dpi retry and the digital extraction having raised.
C10_Witness ==
    /\ ext_pc = "done"
    /\ digital = "raised" /\ conv300 = "raised" /\ conv200 = "ok"
    /\ Len(pages) >= 2 /\ pages[1] = "raised" /\ pages[Len(pages)] = "ok"
    /\ ext_ret = FormattedOcr


(***************************************************************************)
(* Spec: any one of the functions called, from any of the inputs above.    *)
(***************************************************************************)
Init == LevInit \/ AccInit \/ SegInit \/ FmtInit \/ ExtInit

Next == LevStep \/ AccStep \/ SegStep \/ FmtStep \/ ExtStep

Spec == Init /\ [][Next]_vars

=============================================================================
